---- MODULE Spec2Model ----
(***************************************************************************)
(* The synthesis engine of IRDMS: ShepardManager.build_tree_structure      *)
(* (tree builder and reference fan-out), ShepardManager.                   *)
(* create_graph_from_data (graph projection) and the login handler of      *)
(* main.py that runs one after the other.                                  *)
(*                                                                         *)
(* Python objects live on a heap: a node dict is a heap cell, a list of    *)
(* node dicts is a sequence of heap addresses, so that the aliasing the    *)
(* tree builder relies on (the stack carries the very children list it     *)
(* appends to) is kept.                                                    *)
(***************************************************************************)
EXTENDS Integers, Sequences, FiniteSets, TLC

VARIABLES
    source,           \* the remote data source (never changes during a run)
    pc,               \* position of the login handler
    collections,      \* build_tree_structure: local `collections`
    ci,               \* index of the collection the for loop is at
    tree_data,        \* local `tree_data`: addresses of collection nodes
    children_index,   \* local `children_index`
    reference_cache,  \* local `reference_cache` (unbound until first assigned)
    futures,          \* the futures of the current fan-out, by entity id
    requests,         \* how many requests the source has received, by entity id
    hierarchy,        \* local `hierarchy`: addresses of root-level nodes
    stack,            \* local `stack` of the tree builder
    heap,             \* the node dicts allocated so far
    ret,              \* what build_tree_structure handed to its caller
    state,            \* the GUI state: tree_data, references, home_graph
    nodes,            \* create_graph_from_data: local `nodes`
    edges,            \* local `edges`
    pstack,           \* local `stack` of the projection
    color_cache       \* local `color_cache`

vars == <<source, pc, collections, ci, tree_data, children_index,
          reference_cache, futures, requests, hierarchy, stack, heap, ret, state,
          nodes, edges, pstack, color_cache>>

buildVars == <<collections, ci, tree_data, children_index, reference_cache,
               futures, hierarchy, stack, heap>>
projVars == <<nodes, edges, pstack, color_cache>>

-----------------------------------------------------------------------------
(* Bounds of the model *)

MaxCols == 2        \* collections in a listing
MaxEnts == 3        \* entities in the listings of one build, all collections
MaxFetch == 2       \* entities of a build whose fetch outcomes vary freely

-----------------------------------------------------------------------------
(* Python values *)

None == 0                   \* None where an id is expected (ids are positive)
NoCaption == "None"         \* None where a caption is expected
NoAttrs == [k \in {} |-> ""]

Reversed(s) == [i \in 1..Len(s) |-> s[Len(s) + 1 - i]]

\* dict.get(key, default)
Get(d, k, default) == IF k \in DOMAIN d THEN d[k] ELSE default

max_workers == 10
SEP == " -> "              \* the separator of line 434, its arrow written in ASCII
STRUCT_COLOR == "#9E9E9E"
REF_COLOR == "#3F51B5"

-----------------------------------------------------------------------------
(* The data source: what the three remote operations answer *)

ColId(k) == 100 * k
EntId(k, i) == 100 * k + i
MISSING == EntId(9, 9)      \* an id no entity carries
ColNames == <<"P", "Q", "R", "S">>
EntNames == <<"A", "B", "C", "D", "E", "F", "G", "H", "I", "J", "K", "L">>

Failed == [ok |-> FALSE]
Silent == [ok |-> FALSE, silent |-> TRUE]    \* a request the source never answers
Ok(v) == [ok |-> TRUE, value |-> v]

Collection(k, attrs) == [id |-> ColId(k), name |-> ColNames[k], attributes |-> attrs]
DataObject(k, i, parent, attrs) ==
    [id |-> EntId(k, i), name |-> EntNames[i], parentId |-> parent, attributes |-> attrs]
Reference(src, tgt, rel) ==
    [data_object_id |-> src, referenced_data_object_id |-> tgt, relationship |-> rel]

-----------------------------------------------------------------------------
(* The inputs a run draws from.  Five families of sources, each varying    *)
(* one side of the data freely:                                            *)
(*   hierarchies  arbitrary parent pointers; every listing and fetch       *)
(*                answers                                                  *)
(*   outcomes     arbitrary outcomes of the entity listings and of the     *)
(*                reference fetches; all entities at root level            *)
(*   styles       arbitrary attributes in one collection; all entities at  *)
(*                root level                                               *)
(*   silences     reference requests that are never answered; all entities *)
(*                at root level                                            *)
(*   labels       one collection; any of the names may be the empty string *)
(*                and the parent pointers are arbitrary                    *)

Categories == {"", "Default", "Sample"}

ObjectTypeAttrs == {NoAttrs} \cup {[k \in {"object_type"} |-> c] : c \in Categories}
EntityAttrs ==
    ObjectTypeAttrs \cup
    {[k \in {"object_type", "edge"} |-> IF k = "edge" THEN "has" ELSE "Sample"]}

\* what listReferences may answer for one entity
SelfRef(id) == Reference(id, id, "self")
RefKinds == {"fails", "nothing", "self", "twice"}
RefOutcome(id, kind) ==
    CASE kind = "fails" -> Failed
      [] kind = "nothing" -> Ok(<<>>)
      [] kind = "self" -> Ok(<<SelfRef(id)>>)
      [] kind = "twice" -> Ok(<<Reference(id, MISSING, "uses"), Reference(id, MISSING, "uses")>>)
      [] kind = "hangs" -> Silent

Families == {"hierarchies", "outcomes", "styles", "silences", "labels"}

\* a parent is drawn as a place in the listing, as nobody (0) or as MISSING
ParentPlaces(family) ==
    IF family = "hierarchies" THEN 0..MaxEnts \cup {MISSING}
    ELSE IF family = "labels" THEN 0..MaxFetch ELSE {0}
ParentId(k, place) ==
    IF place = 0 THEN None ELSE IF place = MISSING THEN MISSING ELSE EntId(k, place)

Attrs(family) == IF family = "styles" THEN EntityAttrs ELSE {NoAttrs}
ColAttrs(family) == IF family = "styles" THEN ObjectTypeAttrs ELSE {NoAttrs}
Kinds(family) ==
    IF family = "outcomes" THEN RefKinds
    ELSE IF family = "silences" THEN {"self", "hangs"} ELSE {"self"}
Fails(family) == IF family = "outcomes" THEN BOOLEAN ELSE {FALSE}
Cols(family) == IF family \in {"styles", "labels"} THEN 1..1 ELSE 0..MaxCols
Budget(family) == IF family = "hierarchies" THEN MaxEnts ELSE MaxFetch

RECURSIVE Sum(_, _)
Sum(f, n) == IF n = 0 THEN 0 ELSE f[n] + Sum(f, n - 1)

Places(m, sz) == UNION {{<<k, i>> : i \in 1..sz[k]} : k \in 1..m}

\* the source with m collections, collection k listing sz[k] entities (or
\* failing to list), the entity at place <<k, i>> having parent par, attributes
\* at and fetch outcome rk
MakeSource(m, fail, sz, par, at, cat, rk) ==
    [collections |-> Ok([k \in 1..m |-> Collection(k, cat[k])]),
     entities |-> [c \in {ColId(k) : k \in 1..m} |->
                      LET k == c \div 100 IN
                      IF fail[k] THEN Failed
                      ELSE Ok([i \in 1..sz[k] |->
                                  DataObject(k, i, ParentId(k, par[<<k, i>>]), at[<<k, i>>])])],
     refs |-> [id \in {EntId(pl[1], pl[2]) : pl \in Places(m, sz)} |->
                  RefOutcome(id, rk[<<id \div 100, id % 100>>])]]

\* the ids whose names may be empty
Blanks(family, m, sz) ==
    IF family = "labels"
    THEN SUBSET ({ColId(k) : k \in 1..m} \cup {EntId(pl[1], pl[2]) : pl \in Places(m, sz)})
    ELSE {{}}

\* the source src with the empty string as the name of the ids in blank
Unnamed(src, blank) ==
    LET strip(x) == IF x.id \in blank THEN [x EXCEPT !.name = ""] ELSE x
        each(r) == IF r.ok THEN Ok([i \in 1..Len(r.value) |-> strip(r.value[i])]) ELSE r
    IN [src EXCEPT !.collections = each(src.collections),
                   !.entities = [c \in DOMAIN src.entities |-> each(src.entities[c])]]

Unavailable == [collections |-> Failed, entities |-> NoAttrs, refs |-> NoAttrs]

\* one more data object than the pool has workers
Crowd == max_workers + 1

\* three collections: one data object, none, and a crowd of them
CrowdSource ==
    LET sz == <<1, 0, Crowd>> IN
    MakeSource(3, [k \in 1..3 |-> FALSE], sz,
               [pl \in Places(3, sz) |-> 0], [pl \in Places(3, sz) |-> NoAttrs],
               [k \in 1..3 |-> NoAttrs], [pl \in Places(3, sz) |-> "self"])

\* the sources a run may face
IsSource(src) ==
    \/ src = Unavailable
    \/ \E family \in Families :
         \E m \in Cols(family) :
         \E sz \in [1..m -> 0..Budget(family)], fail \in [1..m -> Fails(family)] :
            /\ Sum(sz, m) <= Budget(family)
            /\ \A k \in 1..m : fail[k] => sz[k] = 0
            /\ \E cat \in [1..m -> ColAttrs(family)] :
               \E par \in [Places(m, sz) -> ParentPlaces(family)],
                  at \in [Places(m, sz) -> Attrs(family)],
                  rk \in [Places(m, sz) -> Kinds(family)],
                  blank \in Blanks(family, m, sz) :
                    /\ \A pl \in Places(m, sz) :
                          par[pl] \in 0..sz[pl[1]] \cup {MISSING}
                    /\ src = Unnamed(MakeSource(m, fail, sz, par, at, cat, rk), blank)

-----------------------------------------------------------------------------
(* The remote API wrappers of ShepardManager *)

\* the listing, or None (Failed) on any error
get_all_collections == source.collections

get_all_data_objects(collection_id) == source.entities[collection_id]

\* Python's truth value of a listing-or-None, and `x or []`
Truthy(r) == r.ok /\ r.value # <<>>
OrEmpty(r) == IF Truthy(r) THEN r.value ELSE <<>>

\* datareference_api.get_all_data_object_references: the answer or an exception
get_all_data_object_references(id) == source.refs[id]

-----------------------------------------------------------------------------
(* build_tree_structure *)

Unbound == [bound |-> FALSE]
Bound(m) == [bound |-> TRUE, map |-> m]

CollectionNode(col, kids) ==
    [id |-> col.id, label |-> col.name, children |-> kids, type |-> "collection",
     path |-> col.name, attributes |-> col.attributes]

\* the index when an object whose parent is not listed counts as a root
ChildrenIndexAdoptingOrphans(objs) ==
    LET known == {objs[i].id : i \in 1..Len(objs)}
        key(o) == IF o.parentId \in known THEN o.parentId ELSE None
    IN [p \in {key(objs[i]) : i \in 1..Len(objs)} |->
           SelectSeq(objs, LAMBDA o : key(o) = p)]

\* the index when each object overwrites its parent's entry
ChildrenIndexKeepingLast(objs) ==
    [p \in {objs[i].parentId : i \in 1..Len(objs)} |->
        LET sel == SelectSeq(objs, LAMBDA o : o.parentId = p) IN <<sel[Len(sel)]>>]

\* STEP 1: objects indexed by their parent id, in listing order
ChildrenIndex(objs) ==
    [p \in {objs[i].parentId : i \in 1..Len(objs)} |->
        SelectSeq(objs, LAMBDA o : o.parentId = p)]

\* the path when the name is joined to the parent's path whatever that is
CurrentPathAlwaysJoined(parent_path, name) == parent_path \o SEP \o name

\* line 434: the path of an object below a parent with path parent_path
CurrentPath(parent_path, name) ==
    IF parent_path # "" THEN parent_path \o SEP \o name ELSE name

\* the entries pushed without reversing
PushOrderAsListed(objs) == objs

\* the entries pushed for objs, so that they pop in listing order
PushOrder(objs) == Reversed(objs)

Col == collections.value[ci]

\* lines 379-386: list the collections; nothing to do without any
ListCollections ==
    /\ pc = "start"
    /\ collections' = get_all_collections
    /\ IF ~Truthy(get_all_collections)
       THEN /\ ret' = [kind |-> "value", value |-> <<>>]
            /\ pc' = "returned"
       ELSE /\ pc' = "loop"
            /\ UNCHANGED ret
    /\ UNCHANGED <<source, requests, ci, tree_data, children_index, reference_cache, futures,
                   hierarchy, stack, heap, state, projVars>>

\* lines 388-404: a collection without data objects becomes a childless node
EmptyCollection ==
    /\ pc = "loop"
    /\ ci <= Len(collections.value)
    /\ OrEmpty(get_all_data_objects(Col.id)) = <<>>
    /\ heap' = Append(heap, CollectionNode(Col, <<>>))
    /\ tree_data' = Append(tree_data, Len(heap) + 1)
    /\ ci' = ci + 1
    /\ UNCHANGED <<source, requests, pc, collections, children_index, reference_cache, futures,
                   hierarchy, stack, ret, state, projVars>>

\* lines 388-418: index the data objects and submit one fetch per object
IndexAndSubmit ==
    /\ pc = "loop"
    /\ ci <= Len(collections.value)
    /\ OrEmpty(get_all_data_objects(Col.id)) # <<>>
    /\ LET data_objects == OrEmpty(get_all_data_objects(Col.id)) IN
        /\ children_index' = ChildrenIndex(data_objects)
        /\ futures' = [id \in {data_objects[i].id : i \in 1..Len(data_objects)} |->
                          [st |-> "queued"]]
    /\ reference_cache' = Bound(NoAttrs)
    /\ pc' = "fanout"
    /\ UNCHANGED <<source, requests, collections, ci, tree_data, hierarchy, stack, heap, ret,
                   state, projVars>>

InFlight == {id \in DOMAIN futures : futures[id].st = "running"}

\* the pool's work queue: the submitted requests no worker has taken yet, in
\* the order of their submission, which is the order of the listing
WorkQueue ==
    LET data_objects == OrEmpty(get_all_data_objects(Col.id)) IN
    SelectSeq([i \in 1..Len(data_objects) |-> data_objects[i].id],
              LAMBDA id : futures[id].st = "queued")

\* the pool when it starts a worker for every request, however many run
StartFetchUnbounded(id) ==
    /\ pc = "fanout"
    /\ WorkQueue # <<>>
    /\ id = Head(WorkQueue)
    /\ futures' = [futures EXCEPT ![id] = [st |-> "running"]]
    /\ requests' = [k \in DOMAIN requests \cup {id} |->
                       IF k = id THEN Get(requests, id, 0) + 1 ELSE requests[k]]
    /\ UNCHANGED <<source, pc, collections, ci, tree_data, children_index,
                   reference_cache, hierarchy, stack, heap, ret, state, projVars>>

\* a free worker of the pool takes the request at the head of the work queue
\* and sends it to the source
StartFetch(id) ==
    /\ pc = "fanout"
    /\ WorkQueue # <<>>
    /\ id = Head(WorkQueue)
    /\ Cardinality(InFlight) < max_workers
    /\ futures' = [futures EXCEPT ![id] = [st |-> "running"]]
    /\ requests' = [k \in DOMAIN requests \cup {id} |->
                       IF k = id THEN Get(requests, id, 0) + 1 ELSE requests[k]]
    /\ UNCHANGED <<source, pc, collections, ci, tree_data, children_index,
                   reference_cache, hierarchy, stack, heap, ret, state, projVars>>

\* the request ends: the future holds the answer or the exception; the call is
\* made without a timeout, so a request the source leaves unanswered never ends
FinishFetch(id) ==
    /\ pc = "fanout"
    /\ futures[id].st = "running"
    /\ get_all_data_object_references(id) # Silent
    /\ futures' = [futures EXCEPT ![id] =
                      [st |-> "done", result |-> get_all_data_object_references(id)]]
    /\ UNCHANGED <<source, requests, pc, collections, ci, tree_data, children_index,
                   reference_cache, hierarchy, stack, heap, ret, state, projVars>>

\* lines 421-425: what the as_completed loop stores for a finished future
Collected(result) == IF result.ok THEN OrEmpty(result) ELSE <<>>

\* the as_completed loop when a failed future is logged and left without key
CollectSkippingFailures(id) ==
    /\ pc = "fanout"
    /\ futures[id].st = "done"
    /\ reference_cache' =
         IF futures[id].result.ok
         THEN Bound([k \in DOMAIN reference_cache.map \cup {id} |->
                       IF k = id THEN Collected(futures[id].result)
                       ELSE reference_cache.map[k]])
         ELSE reference_cache
    /\ futures' = [futures EXCEPT ![id] = [st |-> "collected"]]
    /\ UNCHANGED <<source, requests, pc, collections, ci, tree_data, children_index,
                   hierarchy, stack, heap, ret, state, projVars>>

\* a finished future whose result is filed under the next id of the listing,
\* in the order of arrival, instead of under the id it was submitted for
CollectByArrival(id) ==
    /\ pc = "fanout"
    /\ futures[id].st = "done"
    /\ LET data_objects == OrEmpty(get_all_data_objects(Col.id))
           slot == data_objects[Cardinality(DOMAIN reference_cache.map) + 1].id
       IN reference_cache' =
            Bound([k \in DOMAIN reference_cache.map \cup {slot} |->
                      IF k = slot THEN Collected(futures[id].result)
                      ELSE reference_cache.map[k]])
    /\ futures' = [futures EXCEPT ![id] = [st |-> "collected"]]
    /\ UNCHANGED <<source, requests, pc, collections, ci, tree_data, children_index,
                   hierarchy, stack, heap, ret, state, projVars>>

\* lines 419-425: the as_completed loop takes one finished future
Collect(id) ==
    /\ pc = "fanout"
    /\ futures[id].st = "done"
    /\ reference_cache' =
         Bound([k \in DOMAIN reference_cache.map \cup {id} |->
                   IF k = id THEN Collected(futures[id].result)
                   ELSE reference_cache.map[k]])
    /\ futures' = [futures EXCEPT ![id] = [st |-> "collected"]]
    /\ UNCHANGED <<source, requests, pc, collections, ci, tree_data, children_index,
                   hierarchy, stack, heap, ret, state, projVars>>

\* the seeding when the hierarchy list is not made afresh for the collection
SeedStackKeepingHierarchy ==
    /\ pc = "fanout"
    /\ \A id \in DOMAIN futures : futures[id].st = "collected"
    /\ LET root_nodes == Get(children_index, None, <<>>) IN
         stack' = [i \in 1..Len(root_nodes) |->
                      [obj |-> PushOrder(root_nodes)[i], parent_path |-> Col.name,
                       container |-> 0]]
    /\ pc' = "build"
    /\ UNCHANGED <<source, requests, collections, ci, tree_data, children_index, reference_cache,
                   futures, hierarchy, heap, ret, state, projVars>>

\* lines 427-430: every future is collected; seed the stack with the roots
SeedStack ==
    /\ pc = "fanout"
    /\ \A id \in DOMAIN futures : futures[id].st = "collected"
    /\ LET root_nodes == Get(children_index, None, <<>>) IN
         stack' = [i \in 1..Len(root_nodes) |->
                      [obj |-> PushOrder(root_nodes)[i], parent_path |-> Col.name,
                       container |-> 0]]
    /\ hierarchy' = <<>>
    /\ pc' = "build"
    /\ UNCHANGED <<source, requests, collections, ci, tree_data, children_index, reference_cache,
                   futures, heap, ret, state, projVars>>

\* lines 432-450: one turn of the while loop
BuildStep ==
    /\ pc = "build"
    /\ stack # <<>>
    /\ LET top == stack[Len(stack)]
           obj == top.obj
           current_path == CurrentPath(top.parent_path, obj.name)
           children_objs == Get(children_index, obj.id, <<>>)
           node_dict == [id |-> obj.id, label |-> obj.name, children |-> <<>>,
                         type |-> "data_object", path |-> current_path,
                         references |-> Get(reference_cache.map, obj.id, <<>>),
                         attributes |-> obj.attributes]
           addr == Len(heap) + 1
           pushed == PushOrder(children_objs)
       IN
        /\ IF top.container = 0
           THEN /\ hierarchy' = Append(hierarchy, addr)
                /\ heap' = Append(heap, node_dict)
           ELSE /\ heap' = Append([heap EXCEPT ![top.container].children = Append(@, addr)],
                                  node_dict)
                /\ UNCHANGED hierarchy
        /\ stack' = SubSeq(stack, 1, Len(stack) - 1) \o
                    [i \in 1..Len(pushed) |->
                        [obj |-> pushed[i], parent_path |-> current_path,
                         container |-> addr]]
    /\ UNCHANGED <<source, requests, pc, collections, ci, tree_data, children_index,
                   reference_cache, futures, ret, state, projVars>>

\* lines 452-460: the collection node wraps the hierarchy
AppendCollectionRoot ==
    /\ pc = "build"
    /\ stack = <<>>
    /\ heap' = Append(heap, CollectionNode(Col, hierarchy))
    /\ tree_data' = Append(tree_data, Len(heap) + 1)
    /\ ci' = ci + 1
    /\ pc' = "loop"
    /\ UNCHANGED <<source, requests, collections, children_index, reference_cache, futures,
                   hierarchy, stack, ret, state, projVars>>

\* line 462: reading a local that was never assigned raises UnboundLocalError
Return ==
    /\ pc = "loop"
    /\ ci > Len(collections.value)
    /\ IF reference_cache.bound
       THEN /\ ret' = [kind |-> "value", value |-> <<tree_data, reference_cache.map>>]
            /\ pc' = "returned"
       ELSE /\ ret' = [kind |-> "raise", error |-> "UnboundLocalError"]
            /\ pc' = "raised"
    /\ UNCHANGED <<source, requests, buildVars, state, projVars>>

-----------------------------------------------------------------------------
(* create_graph_from_data *)

\* lines 483-488 on the categories of the model: sha256 of the string gives
\* hue, saturation and lightness, hls_to_rgb and the hex format the colour
ColorTable ==
    [s \in Categories |->
        CASE s = "" -> "#C82A7E"           \* sha256 e3b0c442.., hue 328
          [] s = "Default" -> "#C44968"    \* sha256 21b111cb.., hue 345
          [] s = "Sample" -> "#3ADA7F"]    \* sha256 95a2f1ed.., hue 146

\* lines 479-490: the colour of s, from the cache when it is there
color_from_string(s) == IF s \in DOMAIN color_cache THEN color_cache[s] ELSE ColorTable[s]

\* line 498: the category a node is coloured by
NodeType(attrs) == Get(attrs, "object_type", "Default")

\* an edge built with its ends exchanged
RelationshipReversed(src, tgt, caption, color) ==
    [source |-> tgt, target |-> src, caption |-> caption, color |-> color]

Node(id, caption, color) == [id |-> id, caption |-> caption, color |-> color]
Relationship(src, tgt, caption, color) ==
    [source |-> src, target |-> tgt, caption |-> caption, color |-> color]

\* the test that lets the roots through as well
HasParentOrNot(parent_id) == TRUE

\* line 506: whether the visited item gets a parent-child edge
HasParent(parent_id) == parent_id # None

\* lines 515-524: the reference edges of one visited item
ReferenceEdges(item, cache) ==
    IF item.type = "data_object" /\ item.id \in DOMAIN cache
    THEN [i \in 1..Len(cache[item.id]) |->
             Relationship(cache[item.id][i].data_object_id,
                          cache[item.id][i].referenced_data_object_id,
                          cache[item.id][i].relationship, REF_COLOR)]
    ELSE <<>>

\* main.py line 44: the two-target assignment takes a value of exactly two items
Unpack ==
    /\ pc = "returned"
    /\ IF Len(ret.value) = 2
       THEN /\ state' = [state EXCEPT !.tree_data = ret.value[1],
                                      !.references = ret.value[2]]
            /\ pc' = "project"
       ELSE /\ pc' = "raised"
            /\ UNCHANGED state
    /\ UNCHANGED <<source, requests, buildVars, ret, projVars>>

\* lines 472-493: empty outputs, the stack seeded with the roots
SeedProjection ==
    /\ pc = "project"
    /\ nodes' = <<>>
    /\ edges' = <<>>
    /\ color_cache' = NoAttrs
    /\ pstack' = [i \in 1..Len(state.tree_data) |->
                     [item |-> Reversed(state.tree_data)[i], parent_id |-> None]]
    /\ pc' = "walk"
    /\ UNCHANGED <<source, requests, buildVars, ret, state>>

\* lines 495-524: one turn of the while loop
ProjectStep ==
    /\ pc = "walk"
    /\ pstack # <<>>
    /\ LET top == pstack[Len(pstack)]
           item == heap[top.item]
           attrs == item.attributes
           node_type == NodeType(attrs)
           color == color_from_string(node_type)
           kids == Reversed(item.children)
           structural ==
               IF HasParent(top.parent_id)
               THEN <<Relationship(top.parent_id, item.id, Get(attrs, "edge", NoCaption),
                                   STRUCT_COLOR)>>
               ELSE <<>>
       IN
        /\ color_cache' = [s \in DOMAIN color_cache \cup {node_type} |->
                              IF s = node_type THEN color ELSE color_cache[s]]
        /\ nodes' = Append(nodes, Node(item.id, item.label, color))
        /\ edges' = edges \o structural \o ReferenceEdges(item, state.references)
        /\ pstack' = SubSeq(pstack, 1, Len(pstack) - 1) \o
                     [i \in 1..Len(kids) |-> [item |-> kids[i], parent_id |-> item.id]]
    /\ UNCHANGED <<source, requests, pc, buildVars, ret, state>>

\* main.py lines 45-48: the returned graph is installed in the GUI state
InstallGraph ==
    /\ pc = "walk"
    /\ pstack = <<>>
    /\ state' = [state EXCEPT !.home_graph = [nodes |-> nodes, relationships |-> edges]]
    /\ pc' = "done"
    /\ UNCHANGED <<source, requests, buildVars, ret, projVars>>

-----------------------------------------------------------------------------

\* the handler before its first statement
Fresh ==
    /\ pc = "start"
    /\ requests = NoAttrs
    /\ collections = Failed
    /\ ci = 1
    /\ tree_data = <<>>
    /\ children_index = NoAttrs
    /\ reference_cache = Unbound
    /\ futures = NoAttrs
    /\ hierarchy = <<>>
    /\ stack = <<>>
    /\ heap = <<>>
    /\ ret = [kind |-> "none"]
    /\ state = [tree_data |-> <<>>, references |-> NoAttrs,
                home_graph |-> [nodes |-> <<>>, relationships |-> <<>>]]
    /\ nodes = <<>>
    /\ edges = <<>>
    /\ pstack = <<>>
    /\ color_cache = NoAttrs

Init == IsSource(source) /\ Fresh

Next ==
    \/ ListCollections
    \/ EmptyCollection
    \/ IndexAndSubmit
    \/ \E id \in DOMAIN futures : StartFetch(id)
    \/ \E id \in DOMAIN futures : FinishFetch(id)
    \/ \E id \in DOMAIN futures : Collect(id)
    \/ SeedStack
    \/ BuildStep
    \/ AppendCollectionRoot
    \/ Return
    \/ Unpack
    \/ SeedProjection
    \/ ProjectStep
    \/ InstallGraph

Spec == Init /\ [][Next]_vars

\* a build over a collection with more data objects than the pool has workers
CrowdInit == source = CrowdSource /\ Fresh
CrowdSpec == CrowdInit /\ [][Next]_vars

\* the engine's own threads keep running: a step that can be taken is taken
FairSpec == Spec /\ WF_vars(Next)

-----------------------------------------------------------------------------
(* Vocabulary of the properties *)

\* build_tree_structure returned its pair / the forest and mapping of the pair
ReturnedPair == ret.kind = "value" /\ Len(ret.value) = 2
Forest == ret.value[1]
Mapping == ret.value[2]

\* the collections the source lists and the entities it lists for each
Listed == IF source.collections.ok THEN source.collections.value ELSE <<>>
ListingOf(c) == OrEmpty(source.entities[c])
Records == UNION {{ListingOf(c)[i] : i \in 1..Len(ListingOf(c))} : c \in DOMAIN source.entities}
HomeOf(id) == 100 * (id \div 100)    \* the collection whose listing holds entity id

\* the ids of the members of listing with the given parent, in listing order
IdsWithParent(listing, parent) ==
    LET sel == SelectSeq(listing, LAMBDA o : o.parentId = parent)
    IN [i \in 1..Len(sel) |-> sel[i].id]

\* the chain of parent ids starting at id ends at an entity without parent
RECURSIVE ChainEndsAtRoot(_, _, _)
ChainEndsAtRoot(listing, id, fuel) ==
    IF id = None THEN TRUE
    ELSE IF fuel = 0 THEN FALSE
    ELSE \E i \in 1..Len(listing) :
            /\ listing[i].id = id
            /\ ChainEndsAtRoot(listing, listing[i].parentId, fuel - 1)

Rooted(o) == ChainEndsAtRoot(ListingOf(HomeOf(o.id)), o.parentId, Len(ListingOf(HomeOf(o.id))))

\* every parent pointer is absent or names another entity of the listing, no cycles
IsForest == \A o \in Records : Rooted(o)

\* the tree nodes at and below an address, and those of a whole forest
RECURSIVE Under(_)
Under(a) == {a} \cup UNION {Under(heap[a].children[i]) : i \in 1..Len(heap[a].children)}
NodesOf(forest) == UNION {Under(forest[i]) : i \in 1..Len(forest)}
EntityNodes(forest) == {a \in NodesOf(forest) : heap[a].type = "data_object"}
NodesFor(forest, id) == {a \in NodesOf(forest) : heap[a].id = id}
ChildIds(a) == [i \in 1..Len(heap[a].children) |-> heap[heap[a].children[i]].id]

\* the tree at an address as a nested value
RECURSIVE Unfold(_)
Unfold(a) == [heap[a] EXCEPT !.children = [i \in 1..Len(@) |-> Unfold(@[i])]]

\* the edges of the installed graph, by kind
Graph == state.home_graph
Referential == SelectSeq(Graph.relationships, LAMBDA e : e.color = REF_COLOR)
Structural == SelectSeq(Graph.relationships, LAMBDA e : e.color = STRUCT_COLOR)
Count(seq, x) == Cardinality({i \in 1..Len(seq) : seq[i] = x})

AsEdge(ref) ==
    Relationship(ref.data_object_id, ref.referenced_data_object_id, ref.relationship, REF_COLOR)

\* how often the entity nodes of a forest carry reference ref
Carried(forest, ref) ==
    Cardinality(UNION {{<<a, i>> : i \in {j \in 1..Len(heap[a].references) :
                                               heap[a].references[j] = ref}} :
                       a \in EntityNodes(forest)})
CarriedRefs(forest) ==
    UNION {{heap[a].references[i] : i \in 1..Len(heap[a].references)} : a \in EntityNodes(forest)}

-----------------------------------------------------------------------------
(* C1: once the graph built from a build's result is installed, the        *)
(* referential edges are, as a multiset, the references carried by the     *)
(* entity nodes of the whole forest, each as sourceId -> targetId with the *)
(* relationship label as caption.                                          *)
C1_EveryReferenceProjected ==
    pc = "done" =>
        /\ \A ref \in CarriedRefs(state.tree_data) :
              Count(Referential, AsEdge(ref)) = Carried(state.tree_data, ref)
        /\ \A i \in 1..Len(Referential) :
              \E ref \in CarriedRefs(state.tree_data) : Referential[i] = AsEdge(ref)

(* C2: whatever the source answers, build_tree_structure returns a value   *)
(* and never raises.                                                       *)
C2_BuildNeverRaises == ret.kind # "raise"

\* the forest a returning build handed over (the empty list has no nodes)
Built == IF ReturnedPair THEN Forest ELSE <<>>

(* C3: when the listed entities form a forest, the forest a build returns  *)
(* holds one TreeNode per entity and one per collection, every entity      *)
(* exactly once, and an entity with parentId p lies below the node of p.   *)
C3_ForestIsComplete ==
    (ret.kind = "value" /\ IsForest) =>
        /\ Cardinality(NodesOf(Built)) = Cardinality(Records) + Len(Listed)
        /\ \A o \in Records :
              /\ Cardinality({a \in EntityNodes(Built) : heap[a].id = o.id}) = 1
              /\ o.parentId # None =>
                    \E p \in NodesFor(Built, o.parentId), a \in NodesFor(Built, o.id) :
                        a # p /\ a \in Under(p)

C3_Witness ==
    /\ ReturnedPair
    /\ IsForest
    /\ Len(Listed) = 2
    /\ \E o \in Records : o.parentId # None /\ \E q \in Records : q.parentId = o.id

(* C4: at every level of a returned forest the children of a node are the  *)
(* entities listed with that node as parent, in listing order; the         *)
(* children of a collection node are the entities listed without parent.   *)
C4_SiblingOrderKept ==
    ReturnedPair =>
        \A a \in NodesOf(Forest) :
            ChildIds(a) =
                IF heap[a].type = "collection"
                THEN IdsWithParent(ListingOf(heap[a].id), None)
                ELSE IdsWithParent(ListingOf(HomeOf(heap[a].id)), heap[a].id)

\* a node whose two children were listed one before and one after itself
C4_Witness ==
    /\ ReturnedPair
    /\ \E a \in EntityNodes(Forest) :
          /\ Len(ChildIds(a)) = 2
          /\ ChildIds(a)[1] < heap[a].id
          /\ heap[a].id < ChildIds(a)[2]

\* the entity lies on a cycle of parent pointers, or below one
RECURSIVE Follow(_, _, _)
Follow(listing, id, steps) ==
    IF steps = 0 \/ id = None THEN id
    ELSE IF \E i \in 1..Len(listing) : listing[i].id = id
         THEN Follow(listing, (CHOOSE o \in Records : o.id = id).parentId, steps - 1)
         ELSE None
CycleBound(o) ==
    Follow(ListingOf(HomeOf(o.id)), o.id, 2 * Len(ListingOf(HomeOf(o.id)))) # None

(* C5: with arbitrary parent pointers, an entity is in the returned forest *)
(* exactly when its chain of parentIds ends at an entity without parent;   *)
(* orphans and entities on or below a cycle appear nowhere; no entity is   *)
(* visited twice, and a build that listed any entity does not raise.       *)
C5_OnlyRootedEntitiesAppear ==
    /\ ReturnedPair =>
          \A o \in Records : (NodesFor(Forest, o.id) # {}) <=> Rooted(o)
    /\ \A a, b \in 1..Len(heap) : heap[a].id = heap[b].id => a = b
    /\ Records # {} => ret.kind # "raise"

C5_Witness ==
    /\ ReturnedPair
    /\ \E o \in Records : o.parentId = MISSING /\ NodesFor(Forest, o.id) = {}
    /\ \E o \in Records : CycleBound(o) /\ NodesFor(Forest, o.id) = {}
    /\ \E o \in Records : NodesFor(Forest, o.id) # {}

\* what the source answers for the references of id, failures read as nothing
Answered(id) == IF source.refs[id].ok THEN source.refs[id].value ELSE <<>>
IdsOf(listing) == {listing[i].id : i \in 1..Len(listing)}

(* C6: whichever fetches of a collection fail, the fan-out ends with a     *)
(* mapping that has one key per entity of the collection, a failed fetch   *)
(* mapped to the empty sequence and a successful one to the references the *)
(* source returned; while it runs, the same holds of the futures taken.    *)
C6_MappingHasEveryKey ==
    /\ pc = "fanout" =>
          /\ reference_cache.bound
          /\ DOMAIN reference_cache.map =
                {id \in DOMAIN futures : futures[id].st = "collected"}
          /\ \A id \in DOMAIN reference_cache.map : reference_cache.map[id] = Answered(id)
    /\ pc = "build" =>
          /\ reference_cache.bound
          /\ DOMAIN reference_cache.map = IdsOf(ListingOf(Col.id))
          /\ \A id \in DOMAIN reference_cache.map : reference_cache.map[id] = Answered(id)

C6_Witness ==
    /\ pc = "build"
    /\ \E id \in DOMAIN reference_cache.map : ~source.refs[id].ok
    /\ \E id \in DOMAIN reference_cache.map :
          source.refs[id].ok /\ reference_cache.map[id] # <<>>

\* the tree of one listed entity when its collection is built alone
RECURSIVE SoloNode(_, _, _)
SoloNode(listing, o, parent_path) ==
    LET kids == SelectSeq(listing, LAMBDA q : q.parentId = o.id)
        path == CurrentPath(parent_path, o.name)
    IN [id |-> o.id, label |-> o.name,
        children |-> [i \in 1..Len(kids) |-> SoloNode(listing, kids[i], path)],
        type |-> "data_object", path |-> path, references |-> Answered(o.id),
        attributes |-> o.attributes]

\* the tree of one collection when it is built alone
SoloTree(col) ==
    LET listing == ListingOf(col.id)
        roots == SelectSeq(listing, LAMBDA q : q.parentId = None)
    IN [id |-> col.id, label |-> col.name,
        children |-> [i \in 1..Len(roots) |-> SoloNode(listing, roots[i], col.name)],
        type |-> "collection", path |-> col.name, attributes |-> col.attributes]

(* C7: a returned forest has one collection node per listed collection, in *)
(* listing order; a collection without entities gives a childless node and *)
(* every collection's subtree is the one it gets when built alone.         *)
C7_CollectionsDoNotInterfere ==
    ReturnedPair =>
        /\ Len(Forest) = Len(Listed)
        /\ \A k \in 1..Len(Forest) :
              /\ heap[Forest[k]].type = "collection"
              /\ Unfold(Forest[k]) = SoloTree(Listed[k])
              /\ ListingOf(Listed[k].id) = <<>> => heap[Forest[k]].children = <<>>

C7_Witness ==
    /\ ReturnedPair
    /\ Len(Forest) = 2
    /\ ListingOf(Listed[2].id) = <<>>
    /\ heap[Forest[2]].children = <<>>
    /\ \E a \in EntityNodes(<<Forest[1]>>) : heap[a].children # <<>>

\* the structural edges running from id p to id c
Linking(p, c) == {i \in 1..Len(Structural) : Structural[i].source = p /\ Structural[i].target = c}

(* C8: the installed graph has one structural edge per non-root TreeNode,  *)
(* from its parent's id to its own id, and none into a collection node:    *)
(* as many structural edges as TreeNodes less the roots.                   *)
C8_OneStructuralEdgePerChild ==
    pc = "done" =>
        /\ Len(Structural) = Cardinality(NodesOf(state.tree_data)) - Len(state.tree_data)
        /\ \A p \in NodesOf(state.tree_data) :
              \A i \in 1..Len(heap[p].children) :
                  Cardinality(Linking(heap[p].id, heap[heap[p].children[i]].id)) = 1
        /\ \A k \in 1..Len(state.tree_data), i \in 1..Len(Structural) :
              Structural[i].target # heap[state.tree_data[k]].id

C8_Witness ==
    /\ pc = "done"
    /\ Len(state.tree_data) = 2
    /\ \E a \in EntityNodes(state.tree_data) :
          /\ heap[a].children # <<>>
          /\ Linking(heap[a].id, heap[heap[a].children[1]].id) # {}

\* a forest of one collection node whose only child carries one reference to itself
OneSelfReferencingChild ==
    /\ Len(state.tree_data) = 1
    /\ LET col == heap[state.tree_data[1]] IN
        /\ Len(col.children) = 1
        /\ heap[col.children[1]].children = <<>>
        /\ heap[col.children[1]].references = <<SelfRef(heap[col.children[1]].id)>>

(* C9 as stated: projecting one collection node with one child entity that *)
(* carries one reference to itself gives one structural and one            *)
(* referential edge, and the two edges have the same source id.            *)
C9_EdgesShareSource ==
    (pc = "done" /\ OneSelfReferencingChild) =>
        /\ Len(Structural) = 1
        /\ Len(Referential) = 1
        /\ Structural[1].source = Referential[1].source

(* C9 amended: it gives one structural and one referential edge; the       *)
(* structural edge runs from the collection node's id to the entity's id   *)
(* and the referential edge from the entity's id to itself, so the entity  *)
(* is the target of the first and the source of the second.                *)
C9_EdgesMeetAtEntity ==
    (pc = "done" /\ OneSelfReferencingChild) =>
        LET col == heap[state.tree_data[1]]
            ent == heap[col.children[1]]
        IN /\ Len(Structural) = 1
           /\ Len(Referential) = 1
           /\ Structural[1].source = col.id
           /\ Structural[1].target = ent.id
           /\ Referential[1].source = ent.id
           /\ Referential[1].target = ent.id

C9_Witness == pc = "done" /\ OneSelfReferencingChild /\ Len(Graph.relationships) = 2

(* C10: in the installed graph a node whose category attribute is absent   *)
(* or the empty string has the colour of the category "Default".           *)
C10_AbsentOrEmptyIsDefault ==
    pc = "done" =>
        \A a \in NodesOf(state.tree_data) :
            Get(heap[a].attributes, "object_type", "") = "" =>
                \A i \in 1..Len(Graph.nodes) :
                    Graph.nodes[i].id = heap[a].id =>
                        Graph.nodes[i].color = ColorTable["Default"]

(* C11: under fair scheduling of the engine's own steps every build comes  *)
(* to an end, returning or raising, even when the source leaves a          *)
(* reference request unanswered.                                           *)
C11_BuildEventuallyEnds == <>(ret.kind # "none")

(* C12: the pool never has more than max_workers requests running, every    *)
(* running request belongs to the collection in progress, and no data       *)
(* object is requested twice: once its collection's fan-out is over it has  *)
(* been requested exactly once, however many the collection holds.          *)
C12_PoolBoundedOneRequestEach ==
    /\ Cardinality(InFlight) <= max_workers
    /\ \A id \in DOMAIN requests : requests[id] = 1
    /\ pc = "fanout" =>
          /\ \A id \in DOMAIN futures : HomeOf(id) = Col.id
          /\ \A id \in DOMAIN futures :
                futures[id].st = "queued" <=> id \notin DOMAIN requests
    /\ pc # "fanout" => InFlight = {}
    /\ ReturnedPair => DOMAIN requests = {r.id : r \in Records}

\* the pool is full and a request of the same collection still waits
C12_Witness ==
    /\ pc = "fanout"
    /\ Cardinality(InFlight) = max_workers
    /\ WorkQueue # <<>>

\* the sequences of seqs, one after the other
RECURSIVE Concat(_)
Concat(seqs) == IF seqs = <<>> THEN <<>> ELSE Head(seqs) \o Concat(Tail(seqs))

\* the items of a nested tree in pre-order, each with the id of its parent
RECURSIVE Visits(_, _)
Visits(tree, parent_id) ==
    <<[item |-> tree, parent_id |-> parent_id]>> \o
    Concat([i \in 1..Len(tree.children) |-> Visits(tree.children[i], tree.id)])

\* what the source alone determines: the forest, the mapping, the graph
SourceForest == [k \in 1..Len(Listed) |-> SoloTree(Listed[k])]
LastFetched ==
    CHOOSE k \in 1..Len(Listed) :
        /\ ListingOf(Listed[k].id) # <<>>
        /\ \A j \in (k + 1)..Len(Listed) : ListingOf(Listed[j].id) = <<>>
SourceMapping == [id \in IdsOf(ListingOf(Listed[LastFetched].id)) |-> Answered(id)]
SourceVisits == Concat([k \in 1..Len(Listed) |-> Visits(SourceForest[k], None)])
SourceNodes ==
    [i \in 1..Len(SourceVisits) |->
        Node(SourceVisits[i].item.id, SourceVisits[i].item.label,
             ColorTable[Get(SourceVisits[i].item.attributes, "object_type", "Default")])]
SourceEdges ==
    Concat([i \in 1..Len(SourceVisits) |->
        LET v == SourceVisits[i] IN
        (IF v.parent_id = None THEN <<>>
         ELSE <<[source |-> v.parent_id, target |-> v.item.id,
                 caption |-> Get(v.item.attributes, "edge", NoCaption),
                 color |-> STRUCT_COLOR]>>) \o
        (IF v.item.type = "data_object" /\ v.item.id \in DOMAIN SourceMapping
         THEN [j \in 1..Len(SourceMapping[v.item.id]) |-> AsEdge(SourceMapping[v.item.id][j])]
         ELSE <<>>)])

(* C13: the source and the outcomes of its requests alone determine the     *)
(* result: in whatever order the fetches start, end and are collected, a    *)
(* returned pair is the same mapping and the same forest, nodes in the same *)
(* order with the same references, and the installed graph has the same     *)
(* node and edge sequences.                                                 *)
C13_ResultIndependentOfInterleaving ==
    /\ ReturnedPair =>
          /\ Mapping = SourceMapping
          /\ [k \in 1..Len(Forest) |-> Unfold(Forest[k])] = SourceForest
    /\ pc = "done" =>
          /\ Graph.nodes = SourceNodes
          /\ Graph.relationships = SourceEdges

\* the fetch of a later listed data object is collected while that of an
\* earlier listed one, with another answer, is still under way
C13_Witness ==
    /\ pc = "fanout"
    /\ \E a, b \in DOMAIN futures :
          /\ a < b
          /\ futures[a].st = "running"
          /\ futures[b].st = "collected"
          /\ Answered(a) # Answered(b)
          /\ Answered(b) # <<>>

\* the labels joined by the separator
RECURSIVE Join(_)
Join(labels) ==
    IF Len(labels) = 1 THEN labels[1] ELSE labels[1] \o SEP \o Join(Tail(labels))

\* every node at or below address a with the labels from its collection node
\* down to itself, anc being the labels above a
RECURSIVE Lineages(_, _)
Lineages(a, anc) ==
    LET down == Append(anc, heap[a].label) IN
    {<<a, down>>} \cup
    UNION {Lineages(heap[a].children[i], down) : i \in 1..Len(heap[a].children)}
ForestLineages == UNION {Lineages(Forest[k], <<>>) : k \in 1..Len(Forest)}

\* the labels without the empty ones that come before every non-empty
\* ancestor label; the node's own label, the last, always stays
RECURSIVE DropBlankAncestors(_)
DropBlankAncestors(labels) ==
    IF Len(labels) > 1 /\ labels[1] = "" THEN DropBlankAncestors(Tail(labels)) ELSE labels

(* C14 as stated: whatever the names, the empty string included, the path   *)
(* of every TreeNode is the labels of its ancestors from the collection     *)
(* node downwards and its own label, joined by the separator.               *)
C14_PathJoinsAllLabels ==
    ReturnedPair => \A ln \in ForestLineages : heap[ln[1]].path = Join(ln[2])

(* C14: the path of every TreeNode is its own label when every ancestor     *)
(* label is empty, and otherwise the join of the labels from the first      *)
(* non-empty ancestor label downwards to its own; a collection node's path  *)
(* is its name.                                                             *)
C14_PathJoinsFromFirstNamedAncestor ==
    ReturnedPair =>
        /\ \A ln \in ForestLineages : heap[ln[1]].path = Join(DropBlankAncestors(ln[2]))
        /\ \A k \in 1..Len(Forest) : heap[Forest[k]].path = Listed[k].name

\* a nameless collection over a named entity over a nameless one
C14_Witness ==
    /\ ReturnedPair
    /\ \E ln \in ForestLineages :
          /\ Len(ln[2]) = 3
          /\ ln[2][1] = "" /\ ln[2][2] # "" /\ ln[2][3] = ""
          /\ heap[ln[1]].path = ln[2][2] \o SEP

(* C15: whatever build_tree_structure returns, a failed or empty listing of *)
(* the collections included, is a pair of forest and mapping, so the        *)
(* two-target assignment of the handlers never fails on a returned value.   *)
C15_ReturnedValueIsAPair ==
    /\ ret.kind = "value" => Len(ret.value) = 2
    /\ pc = "raised" => ret.kind # "value"

====
